---------------------------- MODULE Spec2Model ----------------------------
(***************************************************************************)
(* Model of the instrumented GORM HTTP server examples                     *)
(* (src/instrumented-gorm-server/app.go).  The file holds two variants of  *)
(* the same server: the instrumented one (lines 1-234), whose handlers     *)
(* record segments on the request's New Relic transaction, and a second    *)
(* one (lines 236-421) whose store helpers start transactions of their     *)
(* own.  A request is handled atomically: one action runs the whole        *)
(* handler, every helper it calls included.                                *)
(*                                                                         *)
(* Strings are sequences of one-character strings, so that lower-casing,   *)
(* Atoi, Itoa and Sprintf are computed and not assumed.  A literal of the  *)
(* source is a one-element sequence holding the literal.                   *)
(***************************************************************************)
EXTENDS Integers, Sequences, FiniteSets, TLC

VARIABLES db, req, w, txn, log, started, ev, flight, txns

vars == <<db, req, w, txn, log, started, ev, flight, txns>>

-----------------------------------------------------------------------------
(* Bounds *)

MaxRecords == 2

(* The values request fields are drawn from: absent, and present in either *)
(* letter case; a price absent, numeric (one digit, several) or not.       *)
Codes == {<<>>, <<"D">>, <<"d">>}
Names == {<<>>, <<"w">>, <<"W">>}
Prices == {<<>>, <<"1">>, <<"1", "2">>, <<"x">>}

(* Texts of the errors the store can fail with (a timeout, a lock). *)
StoreErrors == {"timeout", "locked"}

-----------------------------------------------------------------------------
(* Library functions the handlers call, by what they compute *)

UpperLetters == <<"A","B","C","D","E","F","G","H","I","J","K","L","M",
                  "N","O","P","Q","R","S","T","U","V","W","X","Y","Z">>
LowerLetters == <<"a","b","c","d","e","f","g","h","i","j","k","l","m",
                  "n","o","p","q","r","s","t","u","v","w","x","y","z">>

ToLowerChar(ch) ==
    IF \E i \in 1..Len(UpperLetters) : UpperLetters[i] = ch
    THEN LowerLetters[CHOOSE i \in 1..Len(UpperLetters) : UpperLetters[i] = ch]
    ELSE ch

(* strings.ToLower *)
ToLower(s) == [i \in 1..Len(s) |-> ToLowerChar(s[i])]

Digits == <<"0","1","2","3","4","5","6","7","8","9">>

IsDigit(ch) == \E i \in 1..Len(Digits) : Digits[i] = ch

DigitVal(ch) == (CHOOSE i \in 1..Len(Digits) : Digits[i] = ch) - 1

RECURSIVE ParseDigits(_)
ParseDigits(s) ==
    IF s = <<>> THEN 0
    ELSE 10 * ParseDigits(SubSeq(s, 1, Len(s) - 1)) + DigitVal(s[Len(s)])

Lit(text) == <<text>>

(* strconv.Atoi: an optional sign, then one or more decimal digits; on bad *)
(* syntax the value is 0 and the error quotes the input.  The strings of   *)
(* the model are far too short to leave the range of int.                  *)
Atoi(s) ==
    LET signed == s # <<>> /\ s[1] \in {"+", "-"}
        digits == IF signed THEN Tail(s) ELSE s
        ok == digits # <<>> /\ \A i \in 1..Len(digits) : IsDigit(digits[i])
    IN IF ok
       THEN [val |-> IF signed /\ s[1] = "-" THEN 0 - ParseDigits(digits)
                     ELSE ParseDigits(digits),
             err |-> <<>>]
       ELSE [val |-> 0,
             err |-> Lit("strconv.Atoi: parsing \"") \o s \o Lit("\": invalid syntax")]

(* strconv.Itoa *)
RECURSIVE Itoa(_)
Itoa(n) ==
    IF n < 0 THEN <<"-">> \o Itoa(0 - n)
    ELSE IF n < 10 THEN <<Digits[n + 1]>>
    ELSE Itoa(n \div 10) \o <<Digits[(n % 10) + 1]>>

StatusOK == 200
StatusBadRequest == 400
StatusInternalServerError == 500

BackendError == Lit("backend error")

(* gorm.ErrRecordNotFound *)
ErrRecordNotFound == Lit("record not found")

(* The error r.ParseForm returns for a malformed query or body. *)
ErrParseForm == Lit("invalid URL escape")

-----------------------------------------------------------------------------
(* Products and the store *)

ZeroProduct == [ID |-> 0, Code |-> <<>>, Name |-> <<>>, Price |-> 0]

(* What one request works on: the store, its response writer, its          *)
(* transaction, the log lines it prints, the transactions it starts and    *)
(* the order of everything it does.                                        *)
NewContext(store) ==
    [db |-> store,
     w |-> [header |-> <<>>, body |-> <<>>],
     txn |-> [segments |-> <<>>, errors |-> <<>>, ended |-> FALSE],
     log |-> <<>>,
     started |-> <<>>,
     ev |-> <<>>]

Emit(c, e) == [c EXCEPT !.ev = Append(@, e)]

(* First as it would be were the rows ordered by descending key. *)
FirstByDescendingKey(c, column, value, fail) ==
    LET c1 == Emit(c, <<"First", column, value>>)
        hits == {i \in 1..Len(c.db) : c.db[i][column] = value}
    IN IF fail # ""
       THEN [c |-> c1, product |-> ZeroProduct, err |-> Lit(fail)]
       ELSE IF hits = {}
       THEN [c |-> c1, product |-> ZeroProduct, err |-> ErrRecordNotFound]
       ELSE [c |-> c1,
             product |-> c.db[CHOOSE i \in hits : \A j \in hits : i >= j],
             err |-> <<>>]

(* gormdb.First(&product, condition, value): the row with the least        *)
(* primary key among those whose column equals value, ErrRecordNotFound    *)
(* when there is none; fail is the error of a store that cannot answer.    *)
First(c, column, value, fail) ==
    LET c1 == Emit(c, <<"First", column, value>>)
        hits == {i \in 1..Len(c.db) : c.db[i][column] = value}
    IN IF fail # ""
       THEN [c |-> c1, product |-> ZeroProduct, err |-> Lit(fail)]
       ELSE IF hits = {}
       THEN [c |-> c1, product |-> ZeroProduct, err |-> ErrRecordNotFound]
       ELSE [c |-> c1,
             product |-> c.db[CHOOSE i \in hits : \A j \in hits : i <= j],
             err |-> <<>>]

(* Create as it would be were a row inserted only once per code. *)
CreateOncePerCode(c, code, name, price, fail) ==
    LET c1 == Emit(c, <<"Create", code, name, price>>)
    IN IF fail # ""
       THEN [c |-> c1, err |-> Lit(fail)]
       ELSE IF \E i \in 1..Len(c.db) : c.db[i].Code = code
       THEN [c |-> c1, err |-> <<>>]
       ELSE [c |-> [c1 EXCEPT !.db = Append(@, [ID |-> Len(c.db) + 1, Code |-> code,
                                               Name |-> name, Price |-> price])],
             err |-> <<>>]

(* gormdb.Create(&Product{...}): appends the row under the next primary    *)
(* key, or leaves the table alone when the store fails.                    *)
Create(c, code, name, price, fail) ==
    LET c1 == Emit(c, <<"Create", code, name, price>>)
    IN IF fail # ""
       THEN [c |-> c1, err |-> Lit(fail)]
       ELSE [c |-> [c1 EXCEPT !.db = Append(@, [ID |-> Len(c.db) + 1, Code |-> code,
                                               Name |-> name, Price |-> price])],
             err |-> <<>>]

-----------------------------------------------------------------------------
(* The transaction and the response writer *)

(* txn.StartSegment(name) *)
StartSegment(c, name) ==
    Emit([c EXCEPT !.txn.segments = Append(@, [name |-> name, ended |-> FALSE])],
         <<"StartSegment", name, Len(c.txn.segments) + 1>>)

(* segment.End(), of the segment StartSegment returned as number seg *)
EndSegment(c, seg) ==
    Emit([c EXCEPT !.txn.segments[seg].ended = TRUE],
         <<"EndSegment", c.txn.segments[seg].name, seg>>)

(* txn.NoticeError(err) *)
NoticeError(c, err) ==
    Emit([c EXCEPT !.txn.errors = Append(@, err)], <<"NoticeError", err>>)

(* log.Println / log.Printf *)
Println(c, line) == Emit([c EXCEPT !.log = Append(@, line)], <<"log", line>>)

(* w.WriteHeader(code) *)
WriteHeader(c, code) ==
    Emit([c EXCEPT !.w.header = Append(@, code)], <<"WriteHeader", code>>)

(* w.Write(message) *)
Write(c, message) ==
    Emit([c EXCEPT !.w.body = Append(@, message)], <<"Write", message>>)

(* net/http: the status the caller sees is that of the first WriteHeader;  *)
(* later calls are ignored, and a handler that never calls it answers 200. *)
Status(rw) == IF rw.header = <<>> THEN StatusOK ELSE rw.header[1]

-----------------------------------------------------------------------------
(* The instrumented server: app.go, lines 1-234 *)

(* errorResponse: its segment is named "okResponse" in the source. *)
errorResponse(c, errorNumber, clientError, internalError) ==
    LET c1 == StartSegment(c, "okResponse")
        seg == Len(c1.txn.segments)
        c2 == Println(c1, internalError)
        c3 == NoticeError(c2, internalError)
        c4 == WriteHeader(c3, errorNumber)
        strError == Itoa(errorNumber)
        response == strError \o Lit(" - ") \o clientError
        c5 == Write(c4, response)
    IN EndSegment(c5, seg)

(* okResponse as it would be without the deferred End of its segment. *)
okResponseSegmentLeftOpen(c, message) ==
    LET c1 == StartSegment(c, "okResponse")
        c2 == WriteHeader(c1, StatusOK)
    IN Write(c2, message)

okResponse(c, message) ==
    LET c1 == StartSegment(c, "okResponse")
        seg == Len(c1.txn.segments)
        c2 == WriteHeader(c1, StatusOK)
        c3 == Write(c2, message)
    IN EndSegment(c3, seg)

getProduct(c, column, value, fail) ==
    LET c1 == StartSegment(c, "getProduct")
        seg == Len(c1.txn.segments)
        tx == First(c1, column, value, fail)
    IN [c |-> EndSegment(tx.c, seg), product |-> tx.product, err |-> tx.err]

(* GetName as it would be without the lower-casing. *)
GetNameAsGiven(r) == r.name

(* name := strings.ToLower(r.Form.Get("name")), in Get *)
GetName(r) == ToLower(r.name)

(* GetRespond as it would be were the lookup's error dropped. *)
GetRespondDropsError(c, product, err) ==
    okResponse(c, product.Name \o Lit(",") \o product.Code \o Lit(": $")
                  \o Itoa(product.Price))

(* GetRespond as it would be were the store's error sent to the caller. *)
GetRespondSendsDetail(c, product, err) ==
    IF err # <<>>
    THEN LET internalError == Lit("unable to GET product: ") \o err
         IN errorResponse(c, StatusInternalServerError, internalError, internalError)
    ELSE okResponse(c, product.Name \o Lit(",") \o product.Code \o Lit(": $")
                       \o Itoa(product.Price))

(* Get's answer once the lookup has returned *)
GetRespond(c, product, err) ==
    IF err # <<>>
    THEN LET clientError == BackendError
             internalError == Lit("unable to GET product: ") \o err
         IN errorResponse(c, StatusInternalServerError, clientError, internalError)
    ELSE LET response == product.Name \o Lit(",") \o product.Code \o Lit(": $")
                         \o Itoa(product.Price)
         IN okResponse(c, response)

(* GetBadRequest as it would be were the empty name looked up all the same *)
(* (an else in place of the else if).                                      *)
GetBadRequestLooksUp(c) ==
    LET g == getProduct(c, "Name", <<>>, "")
    IN GetRespond(g.c, g.product, g.err)

(* Get's answer to a request that names neither code nor name *)
GetBadRequest(c) ==
    LET msg == Lit("bad request: either name or code must be provided for get")
    IN errorResponse(c, StatusBadRequest, msg, msg)

(* Get as it would be were the name tried before the code. *)
GetTriesNameFirst(c, r) ==
    LET c1 == StartSegment(c, "Get")
        seg == Len(c1.txn.segments)
        code == r.code
        name == GetName(r)
        done ==
            IF r.parseErr
            THEN LET clientError == BackendError
                     internalError == Lit("error parsing form during GET operation: ")
                                      \o ErrParseForm
                 IN errorResponse(c1, StatusInternalServerError, clientError, internalError)
            ELSE IF name # <<>>
            THEN LET g == getProduct(c1, "Name", name, r.fail)
                 IN GetRespond(g.c, g.product, g.err)
            ELSE IF code # <<>>
            THEN LET g == getProduct(c1, "Code", code, r.fail)
                 IN GetRespond(g.c, g.product, g.err)
            ELSE GetBadRequest(c1)
    IN EndSegment(done, seg)

Get(c, r) ==
    LET c1 == StartSegment(c, "Get")
        seg == Len(c1.txn.segments)
        code == r.code
        name == GetName(r)
        done ==
            IF r.parseErr
            THEN LET clientError == BackendError
                     internalError == Lit("error parsing form during GET operation: ")
                                      \o ErrParseForm
                 IN errorResponse(c1, StatusInternalServerError, clientError, internalError)
            ELSE IF code # <<>>
            THEN LET g == getProduct(c1, "Code", code, r.fail)
                 IN GetRespond(g.c, g.product, g.err)
            ELSE IF name # <<>>
            THEN LET g == getProduct(c1, "Name", name, r.fail)
                 IN GetRespond(g.c, g.product, g.err)
            ELSE GetBadRequest(c1)
    IN EndSegment(done, seg)

(* createProduct: its segment is named "getProduct" in the source. *)
createProduct(c, code, name, price, fail) ==
    LET c1 == StartSegment(c, "getProduct")
        seg == Len(c1.txn.segments)
        tx == Create(c1, code, name, price, fail)
    IN [c |-> EndSegment(tx.c, seg), err |-> tx.err]

(* name := strings.ToLower(r.Form.Get("name")), in Add *)
AddName(r) == ToLower(r.name)

(* Add: its segment is named "Get" in the source.  Neither the price       *)
(* conversion's error branch nor the create's returns.                     *)
Add(c, r) ==
    LET c1 == StartSegment(c, "Get")
        seg == Len(c1.txn.segments)
        code == r.code
        name == AddName(r)
        price == r.price
        conv == Atoi(price)
        intPrice == conv.val
        c2 == IF conv.err # <<>>
              THEN LET clientError == BackendError
                       internalErr == Lit("error converting ") \o price
                                      \o Lit(" to an integer: ") \o conv.err
                   IN errorResponse(c1, StatusInternalServerError, clientError, internalErr)
              ELSE c1
        cr == createProduct(c2, code, name, intPrice, r.fail)
        c3 == IF cr.err # <<>>
              THEN LET clientError == BackendError
                       internalErr == Lit("error creating product: ") \o cr.err
                   IN errorResponse(cr.c, StatusInternalServerError, clientError, internalErr)
              ELSE cr.c
        response == Lit("Added Product: {Code: ") \o code \o Lit(", Name: ") \o name
                    \o Lit(", Price: ") \o price \o Lit("}")
        done ==
            IF r.parseErr
            THEN LET clientError == BackendError
                     internalErr == Lit("error parsing form when adding product: ")
                                    \o ErrParseForm
                 IN errorResponse(c1, StatusInternalServerError, clientError, internalErr)
            ELSE IF code = <<>> \/ name = <<>> \/ price = <<>>
            THEN LET clientError ==
                         Lit("bad request: code, name, and price can not be empty")
                 IN errorResponse(c1, StatusBadRequest, clientError, clientError)
            ELSE okResponse(c3, response)
    IN EndSegment(done, seg)

-----------------------------------------------------------------------------
(* The second server: app.go, lines 236-421.  Its definitions carry the    *)
(* source's names with a 2.                                                *)

errorResponse2(c, errorNumber, message) ==
    LET c1 == WriteHeader(c, errorNumber)
        strError == Itoa(errorNumber)
        response == strError \o Lit(" - ") \o message
    IN Write(c1, response)

okResponse2(c, message) == Write(WriteHeader(c, StatusOK), message)

(* app.App.StartTransaction(name): a transaction of its own, which only a  *)
(* call of its End would end.                                              *)
StartTransaction(c, name) ==
    Emit([c EXCEPT !.started = Append(@, [name |-> name, ended |-> FALSE])],
         <<"StartTransaction", name>>)

getProduct2(c, column, value, fail) ==
    LET c1 == StartTransaction(c, "sqliteRead")
        tx == First(c1, column, value, fail)
    IN [c |-> tx.c, product |-> tx.product, err |-> tx.err]

Get2(c, r) ==
    LET code == r.code
        name == ToLower(r.name)
        looked == IF code # <<>> THEN getProduct2(c, "Code", code, r.fail)
                  ELSE getProduct2(c, "Name", name, r.fail)
        product == looked.product
    IN IF r.parseErr
       THEN Println(c, Lit("error parsing form during scan: ") \o ErrParseForm)
       ELSE IF code = <<>> /\ name = <<>>
       THEN LET response == Lit("either name or code must be provided for get")
            IN Println(errorResponse2(c, StatusBadRequest, response),
                       Lit("Bad Request - ") \o response)
       ELSE IF looked.err # <<>>
       THEN errorResponse2(Println(looked.c, Lit("error getting product: ") \o looked.err),
                           StatusInternalServerError,
                           Lit("backend error: unable to get product"))
       ELSE okResponse2(looked.c,
                        product.Name \o Lit(",") \o product.Code \o Lit(": $")
                        \o Itoa(product.Price))

createProduct2(c, code, name, price, fail) ==
    LET c1 == StartTransaction(c, "sqliteCreate")
        tx == Create(c1, code, name, price, fail)
    IN [c |-> tx.c, err |-> tx.err]

(* Add of the second server: it answers neither a form that does not parse *)
(* nor an empty field, and only logs a price that is no integer and a      *)
(* create that failed.                                                     *)
Add2(c, r) ==
    LET code == r.code
        name == ToLower(r.name)
        price == r.price
        conv == Atoi(price)
        intPrice == conv.val
        c1 == IF conv.err # <<>> THEN Println(c, conv.err) ELSE c
        cr == createProduct2(c1, code, name, intPrice, r.fail)
        c2 == IF cr.err # <<>>
              THEN Println(cr.c, Lit("product create error: ") \o cr.err)
              ELSE cr.c
        response == Lit("Added Product: {Code: ") \o code \o Lit(", Name: ") \o name
                    \o Lit(", Price: ") \o price \o Lit("}")
    IN IF r.parseErr
       THEN Println(c, Lit("error parsing form during scan: ") \o ErrParseForm)
       ELSE IF code = <<>> \/ name = <<>> \/ price = <<>>
       THEN Println(c, Lit("code, name, and price can not be empty"))
       ELSE okResponse2(c2, response)

(* newrelic.WrapHandleFunc: the handler runs inside a transaction of its   *)
(* own request, which the wrapper ends when the handler returns.           *)
WrapHandleFunc(c) == Emit([c EXCEPT !.txn.ended = TRUE], <<"End">>)

-----------------------------------------------------------------------------
(* Requests *)

Request(handler, code, name, price, parseErr, fail) ==
    [handler |-> handler, code |-> code, name |-> name, price |-> price,
     parseErr |-> parseErr, fail |-> fail]

(* The handler a pattern is registered under, run on request r. *)
Run(r, store) ==
    CASE r.handler = "Get" -> WrapHandleFunc(Get(NewContext(store), r))
      [] r.handler = "Add" -> WrapHandleFunc(Add(NewContext(store), r))
      [] r.handler = "Get2" -> WrapHandleFunc(Get2(NewContext(store), r))
      [] r.handler = "Add2" -> WrapHandleFunc(Add2(NewContext(store), r))

(* Whether the request got as far as calling the store. *)
ReachedStore(c) == \E i \in 1..Len(c.ev) : c.ev[i][1] \in {"First", "Create"}

(* The fields a request can carry: a form that does not parse yields none. *)
FieldsOf(values, parseErr) == IF parseErr THEN {<<>>} ELSE values

(* The flows that handle requests at the same time, one request each.      *)
Flows == {"a", "b"}

(* A flow between two requests, and a transaction with nothing recorded *)
Idle == [r |-> Request("", <<>>, <<>>, <<>>, FALSE, ""), plan |-> <<>>, pc |-> 0, txn |-> ""]

NoTransaction == [segments |-> <<>>, errors |-> <<>>, ended |-> FALSE]

(* The state after request r has been handled with outcome c. *)
Served(r, c) ==
    /\ Len(c.db) <= MaxRecords
    /\ db' = c.db
    /\ req' = r
    /\ w' = c.w
    /\ txn' = c.txn
    /\ log' = c.log
    /\ started' = c.started
    /\ ev' = c.ev
    /\ UNCHANGED <<flight, txns>>

Init ==
    /\ db = <<>>
    /\ req = Request("", <<>>, <<>>, <<>>, FALSE, "")
    /\ w = NewContext(<<>>).w
    /\ txn = NewContext(<<>>).txn
    /\ log = <<>>
    /\ started = <<>>
    /\ ev = <<>>
    /\ flight = [f \in Flows |-> Idle]
    /\ txns = [f \in Flows |-> NoTransaction]

(* The ways request r can be handled in the present store, each the        *)
(* request with its outcome: the store can fail it, with any of its        *)
(* errors, only if the handler calls the store.                            *)
Outcomes(r) ==
    LET c == Run(r, db)
    IN {<<r, c>>} \cup
       IF ReachedStore(c)
       THEN {<<[r EXCEPT !.fail = fail], Run([r EXCEPT !.fail = fail], db)>> :
                 fail \in StoreErrors}
       ELSE {}

(* app.Handle("/get", app.Get) *)
HandleGet ==
    \E parseErr \in BOOLEAN :
    \E code \in FieldsOf(Codes, parseErr), name \in FieldsOf(Names, parseErr) :
        LET r == Request("Get", code, name, <<>>, parseErr, "")
        IN \E o \in Outcomes(r) : Served(o[1], o[2])

(* app.Handle("/add", app.Add) *)
HandleAdd ==
    \E parseErr \in BOOLEAN :
    \E code \in FieldsOf(Codes, parseErr), name \in FieldsOf(Names, parseErr),
       price \in FieldsOf(Prices, parseErr) :
        LET r == Request("Add", code, name, price, parseErr, "")
        IN \E o \in Outcomes(r) : Served(o[1], o[2])

(* app.wrappedHandleFunc("/get", app.Get), of the second server *)
wrappedHandleGet ==
    \E parseErr \in BOOLEAN :
    \E code \in FieldsOf(Codes, parseErr), name \in FieldsOf(Names, parseErr) :
        LET r == Request("Get2", code, name, <<>>, parseErr, "")
        IN \E o \in Outcomes(r) : Served(o[1], o[2])

(* app.wrappedHandleFunc("/add", app.Add), of the second server *)
wrappedHandleAdd ==
    \E parseErr \in BOOLEAN :
    \E code \in FieldsOf(Codes, parseErr), name \in FieldsOf(Names, parseErr),
       price \in FieldsOf(Prices, parseErr) :
        LET r == Request("Add2", code, name, price, parseErr, "")
        IN \E o \in Outcomes(r) : Served(o[1], o[2])

-----------------------------------------------------------------------------
(* Requests handled at the same time.  A flow runs its handler one call at *)
(* a time, in the order the handler makes them; the calls of different     *)
(* flows interleave freely.  What a handler does up to its store call does *)
(* not depend on the store, and what it does after depends on what the     *)
(* store answered at that moment.                                          *)

(* The requests the flows handle: a lookup, a request with no arguments,   *)
(* an Add, and an Add whose price is no integer.                           *)
FlowRequests ==
    {Request("Get", <<"D">>, <<>>, <<>>, FALSE, ""),
     Request("Get", <<>>, <<>>, <<>>, FALSE, ""),
     Request("Add", <<"D">>, <<"W">>, <<"1">>, FALSE, ""),
     Request("Add", <<"D">>, <<"W">>, <<"x">>, FALSE, "")}

(* FromContext as it would be were one transaction kept for the whole      *)
(* application.                                                            *)
FromContextOfApp(f) == "a"

(* txn := newrelic.FromContext(r.Context()): the transaction the wrapper   *)
(* put into the context of the request flow f handles.                     *)
FromContext(f) == flight[f].txn

(* newrelic.WrapHandleFunc, on arrival: a request reaches an idle flow,    *)
(* and the wrapper starts its transaction and hands it over in the         *)
(* request's context.                                                      *)
Arrive(f) ==
    /\ flight[f].pc = Len(flight[f].plan)
    /\ \E r \in FlowRequests :
           flight' = [flight EXCEPT ![f] =
                         [r |-> r, plan |-> Run(r, db).ev, pc |-> 0, txn |-> f]]
    /\ txns' = [txns EXCEPT ![f] = NoTransaction]
    /\ UNCHANGED <<db, req, w, txn, log, started, ev>>

(* The transaction t after flow f has made call e on it. *)
Recorded(t, f, e) ==
    CASE e[1] = "StartSegment" ->
             [t EXCEPT !.segments =
                  Append(@, [name |-> e[2], num |-> e[3], by |-> f, ended |-> FALSE])]
      [] e[1] = "EndSegment" ->
             [t EXCEPT !.segments =
                  [i \in 1..Len(@) |->
                      IF @[i].by = f /\ @[i].num = e[3]
                      THEN [@[i] EXCEPT !.ended = TRUE] ELSE @[i]]]
      [] e[1] = "NoticeError" ->
             [t EXCEPT !.errors = Append(@, [err |-> e[2], by |-> f])]
      [] e[1] = "End" -> [t EXCEPT !.ended = TRUE]
      [] OTHER -> t

(* Flow f makes the next call of its handler.  A store call runs on the    *)
(* store as it is now, and may fail; every other call touches the flow's   *)
(* own response and the transaction of its request.                        *)
Step(f) ==
    /\ flight[f].pc < Len(flight[f].plan)
    /\ LET e == flight[f].plan[flight[f].pc + 1]
       IN IF e[1] \in {"First", "Create"}
          THEN \E fail \in {""} \cup StoreErrors :
                   LET r == [flight[f].r EXCEPT !.fail = fail]
                       c == Run(r, db)
                   IN /\ Len(c.db) <= MaxRecords
                      /\ db' = c.db
                      /\ flight' = [flight EXCEPT ![f].r = r, ![f].plan = c.ev,
                                                  ![f].pc = @ + 1]
                      /\ txns' = txns
          ELSE /\ flight' = [flight EXCEPT ![f].pc = @ + 1]
               /\ txns' = [txns EXCEPT ![FromContext(f)] = Recorded(@, f, e)]
               /\ db' = db
    /\ UNCHANGED <<req, w, txn, log, started, ev>>

NextC == (\E f \in Flows : Arrive(f)) \/ (\E f \in Flows : Step(f))

SpecC == Init /\ [][NextC]_vars

(* The instrumented server *)
Next == HandleGet \/ HandleAdd

Spec == Init /\ [][Next]_vars

(* The second server *)
Next2 == wrappedHandleGet \/ wrappedHandleAdd

Spec2 == Init /\ [][Next2]_vars

-----------------------------------------------------------------------------
(* What the claims speak of *)

Contains(msg, part) ==
    \E i \in 0..(Len(msg) - Len(part)) : SubSeq(msg, i + 1, i + Len(part)) = part

(* The failure envelope "<status> - <message>" *)
Envelope(status, message) == Itoa(status) \o Lit(" - ") \o message

IsAdd == req.handler \in {"Add", "Add2"}

(* The form parsed and every field of the Add request is there. *)
AddFieldsGiven == ~req.parseErr /\ req.code # <<>> /\ req.name # <<>> /\ req.price # <<>>

AddBadPrice == IsAdd /\ AddFieldsGiven /\ Atoi(req.price).err # <<>>

AddEmptyField ==
    IsAdd /\ ~req.parseErr /\ (req.code = <<>> \/ req.name = <<>> \/ req.price = <<>>)

GetNoArgs == req.handler = "Get" /\ ~req.parseErr /\ req.code = <<>> /\ req.name = <<>>

StoreCalls == {i \in 1..Len(ev) : ev[i][1] \in {"First", "Create"}}

SegmentsNamed(name) == {i \in 1..Len(txn.segments) : txn.segments[i].name = name}

(* C1: an Add whose price is given but is no integer fails with an error   *)
(* naming the price, calls no Create and leaves the number of records as   *)
(* it was.                                                                 *)
C1_BadPriceLeavesStore ==
    [][AddBadPrice' =>
        /\ Len(db') = Len(db)
        /\ \A i \in 1..Len(ev') : ev'[i][1] # "Create"
        /\ Status(w') # StatusOK
        /\ \E i \in 1..Len(log') : Contains(log'[i], req'.price)]_vars

(* C2: an Add with an empty code, name or price is answered with the 400   *)
(* failure envelope, without any store call, and the number of records     *)
(* stays as it was.                                                        *)
C2_EmptyFieldRejected ==
    [][AddEmptyField' =>
        /\ Len(db') = Len(db)
        /\ \A i \in 1..Len(ev') : ev'[i][1] \notin {"First", "Create"}
        /\ Status(w') = StatusBadRequest
        /\ w'.body = <<Envelope(StatusBadRequest,
                Lit("bad request: code, name, and price can not be empty"))>>]_vars

(* C3: a Get that names neither code nor name is answered with the 400     *)
(* failure envelope and runs no First.                                     *)
C3_GetNoArgsRejected ==
    GetNoArgs =>
        /\ Status(w) = StatusBadRequest
        /\ w.header = <<StatusBadRequest>>
        /\ w.body = <<Envelope(StatusBadRequest,
               Lit("bad request: either name or code must be provided for get"))>>
        /\ StoreCalls = {}
        /\ SegmentsNamed("getProduct") = {}

C3_Witness == GetNoArgs /\ Len(db) > 0 /\ Status(w) = StatusBadRequest

(* What Get answers in the present store, asked by code and by name *)
GetByCode(code) == Run(Request("Get", code, <<>>, <<>>, FALSE, ""), db).w

GetByName(name) == Run(Request("Get", <<>>, name, <<>>, FALSE, ""), db).w

(* The success body of Get: "<name>,<code>: $<price>" *)
ProductLine(name, code, price) == name \o Lit(",") \o code \o Lit(": $") \o Itoa(price)

(* The last request was an Add of the instrumented server, answered 200. *)
AddSucceeded == req.handler = "Add" /\ Status(w) = StatusOK

RowsWithCode(code) == {i \in 1..Len(db) : db[i].Code = code}

(* C4, as claimed: after a successful Add, Get by its code answers with    *)
(* the lower-cased name and the price of that Add, whatever the store      *)
(* held before.                                                            *)
C4_AddThenGetReturnsAdded ==
    AddSucceeded =>
        /\ Status(GetByCode(req.code)) = StatusOK
        /\ GetByCode(req.code).body =
               <<ProductLine(ToLower(req.name), req.code, Atoi(req.price).val)>>

(* C4, amended: after a successful Add the store's last row is the one     *)
(* added (lower-cased name, parsed price), and Get by its code answers     *)
(* with the earliest row of that code: the row added when no earlier row   *)
(* has the code.                                                           *)
C4_AddThenGetReturnsFirst ==
    AddSucceeded =>
        LET rows == RowsWithCode(req.code)
            first == db[CHOOSE i \in rows : \A j \in rows : i <= j]
            added == db[Len(db)]
        IN /\ added.Code = req.code
           /\ added.Name = ToLower(req.name)
           /\ added.Price = Atoi(req.price).val
           /\ added.ID = Len(db)
           /\ Status(GetByCode(req.code)) = StatusOK
           /\ GetByCode(req.code).body = <<ProductLine(first.Name, first.Code, first.Price)>>
           /\ rows = {Len(db)} =>
                  GetByCode(req.code).body =
                      <<ProductLine(ToLower(req.name), req.code, Atoi(req.price).val)>>

C4_Witness ==
    /\ AddSucceeded
    /\ Len(db) = 2
    /\ db[1].Code = req.code
    /\ db[1].Price # db[2].Price

(* C5: an Add whose Create fails is answered with the 500 failure envelope *)
(* alone; no "Added Product" message is written.                           *)
C5_CreateFailureOnlyFails ==
    (IsAdd /\ req.fail # "") =>
        /\ Status(w) = StatusInternalServerError
        /\ w.body = <<Envelope(StatusInternalServerError, BackendError)>>
        /\ \A i \in 1..Len(w.body) : ~Contains(w.body[i], Lit("Added Product: {Code: "))

(* The store answered a Get, and held no row for it. *)
GetNoMatch ==
    /\ req.handler = "Get"
    /\ ~req.parseErr
    /\ req.fail = ""
    /\ \/ req.code # <<>> /\ RowsWithCode(req.code) = {}
       \/ /\ req.code = <<>>
          /\ req.name # <<>>
          /\ \A i \in 1..Len(db) : db[i].Name # ToLower(req.name)

(* C6: a Get that matches no row is answered with the failure envelope     *)
(* "500 - backend error" and nothing else, the not-found error going to    *)
(* the transaction; no success line of a zero Product is written.          *)
C6_NotFoundIsBackendError ==
    GetNoMatch =>
        /\ w.header = <<StatusInternalServerError>>
        /\ w.body = <<Envelope(StatusInternalServerError, BackendError)>>
        /\ txn.errors = <<Lit("unable to GET product: ") \o ErrRecordNotFound>>
        /\ \A i \in 1..Len(w.body) : w.body[i] # ProductLine(<<>>, <<>>, 0)

C6_Witness == GetNoMatch /\ Len(db) > 0 /\ Status(w) = StatusInternalServerError

ClosedSegmentsNamed(name) == {i \in SegmentsNamed(name) : txn.segments[i].ended}

OpenSegments == {i \in 1..Len(txn.segments) : ~txn.segments[i].ended}

Instrumented == req.handler \in {"Get", "Add"}

(* C7, as claimed: every request of the instrumented server ends with      *)
(* exactly one closed store-access segment, exactly one closed response    *)
(* segment and no open segment.                                            *)
C7_OneStoreOneResponseSegment ==
    Instrumented =>
        /\ Cardinality(ClosedSegmentsNamed("getProduct")) = 1
        /\ Cardinality(ClosedSegmentsNamed("okResponse")) = 1
        /\ OpenSegments = {}

(* C7, amended: every request of the instrumented server ends with no open *)
(* segment, with one closed store-access segment when it called the store  *)
(* and none when it did not, and with one closed response segment for      *)
(* each response it wrote: exactly one for a Get, and for an Add one more  *)
(* for a price that is no integer and one more for a failed Create.        *)
C7_SegmentsClosed ==
    Instrumented =>
        /\ OpenSegments = {}
        /\ Cardinality(SegmentsNamed("getProduct")) = Cardinality(StoreCalls)
        /\ Cardinality(StoreCalls) <= 1
        /\ Cardinality(SegmentsNamed("okResponse")) = Len(w.body)
        /\ Len(w.body) >= 1
        /\ req.handler = "Get" => Len(w.body) = 1
        /\ req.handler = "Add" =>
               Len(w.body) = 1 + (IF AddBadPrice THEN 1 ELSE 0)
                               + (IF req.fail # "" THEN 1 ELSE 0)
        /\ Cardinality(SegmentsNamed("Get")) = 1
        /\ txn.ended

C7_Witness ==
    /\ req.handler = "Add"
    /\ req.fail # ""
    /\ Cardinality(ClosedSegmentsNamed("okResponse")) = 2
    /\ Cardinality(ClosedSegmentsNamed("getProduct")) = 1

(* A failure the caller's input causes *)
CallerInputFailure ==
    \/ GetNoArgs
    \/ req.handler = "Add" /\ AddEmptyField
    \/ req.handler = "Add" /\ AddBadPrice

(* Any other failure: the form, the store, or no row *)
OtherFailure == ~CallerInputFailure /\ (req.parseErr \/ req.fail # "" \/ GetNoMatch)

(* C8: a failure the caller's input causes is answered 400, any other      *)
(* failure 500.                                                            *)
C8_CallerFailuresAre400 ==
    Instrumented =>
        /\ CallerInputFailure => Status(w) = StatusBadRequest
        /\ OtherFailure => Status(w) = StatusInternalServerError

(* C9: what the caller is sent does not depend on the text of the store's  *)
(* error: the same request, failed by the store with any other text (or    *)
(* with not-found), writes the same headers and body, leading with         *)
(* "500 - backend error"; the text goes to the log and the transaction.    *)
C9_BodyIndependentOfStoreError ==
    /\ (Instrumented /\ req.fail # "") =>
           /\ \A e \in StoreErrors : Run([req EXCEPT !.fail = e], db).w = w
           /\ Status(w) = StatusInternalServerError
           /\ w.body[1] = Envelope(StatusInternalServerError, BackendError)
           /\ \A i \in 1..Len(w.body) : ~Contains(w.body[i], Lit(req.fail))
           /\ \E i \in 1..Len(log) : Contains(log[i], Lit(req.fail))
           /\ \E i \in 1..Len(txn.errors) : Contains(txn.errors[i], Lit(req.fail))
    /\ GetNoMatch =>
           /\ \A e \in StoreErrors : Run([req EXCEPT !.fail = e], db).w = w
           /\ \A i \in 1..Len(w.body) : ~Contains(w.body[i], ErrRecordNotFound)

C9_Witness ==
    /\ req.handler = "Get"
    /\ req.fail = "timeout"
    /\ Len(db) > 0
    /\ \E i \in 1..Len(txn.errors) : Contains(txn.errors[i], Lit("timeout"))

(* Two strings that differ at most in the case of their letters *)
SameUpToCase(a, b) ==
    /\ Len(a) = Len(b)
    /\ \A i \in 1..Len(a) :
           \/ a[i] = b[i]
           \/ \E k \in 1..Len(UpperLetters) :
                  {a[i], b[i]} = {UpperLetters[k], LowerLetters[k]}

(* C10: in every store the Adds produce, Get by name answers the same for  *)
(* two names that differ only in letter case; and after a successful Add   *)
(* Get finds a row of the added name under every casing of it.             *)
C10_GetByNameIgnoresCase ==
    /\ \A n1 \in Names, n2 \in Names :
           SameUpToCase(n1, n2) => GetByName(n1) = GetByName(n2)
    /\ AddSucceeded =>
           \A n \in Names :
               SameUpToCase(n, req.name) =>
                   /\ Status(GetByName(n)) = StatusOK
                   /\ Contains(GetByName(n).body[1], ToLower(req.name) \o Lit(","))
                   /\ SubSeq(GetByName(n).body[1], 1, Len(req.name)) = ToLower(req.name)

C10_Witness ==
    /\ AddSucceeded
    /\ req.name = <<"W">>
    /\ Status(GetByName(<<"w">>)) = StatusOK
    /\ GetByName(<<"w">>) = GetByName(<<"W">>)

(* C11: Add is not idempotent.  Every successful Add, a repeat of the last *)
(* request included, appends one row under an identifier no row had, so    *)
(* two successful Adds of one triple leave two rows more, alike but for    *)
(* their identifiers.                                                      *)
C11_AddNotIdempotent ==
    [][AddSucceeded' =>
        /\ Len(db') = Len(db) + 1
        /\ SubSeq(db', 1, Len(db)) = db
        /\ \A i \in 1..Len(db) : db[i].ID # db'[Len(db')].ID
        /\ db'[Len(db')].Code = req'.code
        /\ db'[Len(db')].Name = ToLower(req'.name)
        /\ db'[Len(db')].Price = Atoi(req'.price).val
        /\ (AddSucceeded /\ req' = req) =>
               /\ db'[Len(db')].Code = db[Len(db)].Code
               /\ db'[Len(db')].Name = db[Len(db)].Name
               /\ db'[Len(db')].Price = db[Len(db)].Price
               /\ db'[Len(db')].ID # db[Len(db)].ID]_vars

C11_Witness ==
    /\ AddSucceeded
    /\ Len(db) = 2
    /\ db[1].Code = db[2].Code
    /\ db[1].Name = db[2].Name
    /\ db[1].Price = db[2].Price
    /\ db[1].ID # db[2].ID

(* The places in the request's order of calls *)
Starts == {i \in 1..Len(ev) : ev[i][1] = "StartSegment"}

Ends == {i \in 1..Len(ev) : ev[i][1] = "EndSegment"}

Responses == {i \in 1..Len(ev) : ev[i][1] \in {"WriteHeader", "Write"}}

(* C12: in a request of the instrumented server every segment is started  *)
(* before it is ended, and every write of the response comes after the     *)
(* request's store call.                                                   *)
C12_StoreBeforeResponse ==
    Instrumented =>
        /\ \A e \in Ends : \E b \in Starts : b < e /\ ev[b][3] = ev[e][3]
        /\ \A b \in Starts : \E e \in Ends : b < e /\ ev[b][3] = ev[e][3]
        /\ \A i \in Responses : \A j \in StoreCalls : j < i

(* C13: every transaction started while a request is handled, that of the  *)
(* request and those getProduct and createProduct start, has been ended    *)
(* when the handler has returned.                                          *)
C13_TransactionsEnded ==
    req.handler # "" =>
        /\ txn.ended
        /\ \A i \in 1..Len(started) : started[i].ended

(* C15: a request of the instrumented server is answered once: one status  *)
(* header, one message, one response segment.                              *)
C15_OneResponse ==
    Instrumented =>
        /\ Len(w.header) = 1
        /\ Len(w.body) = 1
        /\ Cardinality(SegmentsNamed("okResponse")) = 1

GetBothGiven ==
    req.handler = "Get" /\ ~req.parseErr /\ req.code # <<>> /\ req.name # <<>>

(* C16: a Get that names both a code and a name runs one query, on the     *)
(* code, and answers as it would with any other name or none.              *)
C16_CodeWinsOverName ==
    GetBothGiven =>
        /\ Cardinality(StoreCalls) = 1
        /\ \A i \in StoreCalls : ev[i] = <<"First", "Code", req.code>>
        /\ \A n \in Names :
               LET other == Run([req EXCEPT !.name = n], db)
               IN other.w = w /\ other.txn = txn /\ other.ev = ev

C16_Witness ==
    /\ GetBothGiven
    /\ req.fail = ""
    /\ RowsWithCode(req.code) = {}
    /\ \E i \in 1..Len(db) : db[i].Name = ToLower(req.name)
    /\ Status(w) = StatusInternalServerError


(* A flow that has a request in hand, and one whose handler has returned *)
InFlight(f) == flight[f].r.handler # "" /\ flight[f].pc < Len(flight[f].plan)

Returned(f) == flight[f].r.handler # "" /\ flight[f].pc = Len(flight[f].plan)

(* The calls of kind k a handler makes, in order *)
CallsOf(plan, k) == SelectSeq(plan, LAMBDA e : e[1] = k)

(* C14: requests handled at the same time share nothing but the store.     *)
(* Every segment and every noticed error sits in the transaction of the    *)
(* request that produced it; two flows never hold the same transaction; a  *)
(* call made by one flow changes neither the other flow nor the other      *)
(* flow's transaction; and when a handler has returned, its transaction    *)
(* holds exactly the segments and errors of its own calls, however the     *)
(* other flow's calls were interleaved with them.                          *)
C14_FlowsShareOnlyStore ==
    [][/\ \A t \in Flows :
              /\ \A i \in 1..Len(txns'[t].segments) : txns'[t].segments[i].by = t
              /\ \A i \in 1..Len(txns'[t].errors) : txns'[t].errors[i].by = t
       /\ \A f \in Flows : \A g \in Flows \ {f} :
              /\ (flight'[f].r.handler # "" /\ flight'[g].r.handler # "")
                     => flight'[f].txn # flight'[g].txn
              /\ flight'[f] # flight[f]
                     => flight'[g] = flight[g] /\ txns'[g] = txns[g]
       /\ \A f \in Flows : Returned(f)' =>
              /\ txns'[f].ended
              /\ [i \in 1..Len(txns'[f].segments) |-> txns'[f].segments[i].name]
                     = [i \in 1..Len(CallsOf(flight'[f].plan, "StartSegment")) |->
                           CallsOf(flight'[f].plan, "StartSegment")[i][2]]
              /\ [i \in 1..Len(txns'[f].errors) |-> txns'[f].errors[i].err]
                     = [i \in 1..Len(CallsOf(flight'[f].plan, "NoticeError")) |->
                           CallsOf(flight'[f].plan, "NoticeError")[i][2]]]_vars

C14_Witness ==
    /\ \A f \in Flows : InFlight(f) /\ txns[f].segments # <<>>
    /\ \E f \in Flows : txns[f].errors # <<>>
    /\ flight["a"].r # flight["b"].r

=============================================================================
